---- MODULE Spec2Model ----
(***************************************************************************)
(* The Query Service of mommyrag (src/app.py): the lazily initialised,     *)
(* process-wide pair (rag_chain, fallback_chain), the GET / handler and    *)
(* the POST /chat handler with its lexical "don't know" fallback.          *)
(*                                                                         *)
(* Handlers declared with `def` are run by the server on worker threads,   *)
(* so several calls of chat may be in flight at once.  A thread may be     *)
(* pre-empted between any two accesses of the module globals; everything   *)
(* between two such accesses is local to the thread and is one step.       *)
(* Text is a sequence of one-character strings.                            *)
(***************************************************************************)
EXTENDS Integers, Sequences, FiniteSets, TLC

\* Worker threads that may serve requests at the same time.
NumThreads == 2
\* Largest number of chunks a retrieval returns.
MaxDocs == 2

Threads == 1..NumThreads

\* Python's None, as the value of a chain that has not been built.  A built
\* chain is identified by the thread whose get_rag_chain call built it.
None == 0

VARIABLES
    rag_chain,        \* module global, app.py:19
    fallback_chain,   \* module global, app.py:20
    pc,               \* where each thread stands in its handler
    question,         \* query.question of the request a thread serves
    ran_init,         \* whether chat's call of get_rag_chain entered its if-body
    chains,           \* the pair get_rag_chain returned: chat's two locals
    calls,            \* the external calls the request has made, in order
    answer,           \* chat's local `answer`
    should_fallback,  \* chat's local `should_fallback`
    exc,              \* the exception caught at app.py:116, if any
    ret               \* what the handler returned

vars == <<rag_chain, fallback_chain, pc, question, ran_init, chains, calls,
          answer, should_fallback, exc, ret>>

-----------------------------------------------------------------------------
(* Text *)

UpperCase == <<"A","B","C","D","E","F","G","H","I","J","K","L","M",
               "N","O","P","Q","R","S","T","U","V","W","X","Y","Z">>
LowerCase == <<"a","b","c","d","e","f","g","h","i","j","k","l","m",
               "n","o","p","q","r","s","t","u","v","w","x","y","z">>
Whitespace == {" ", "\n", "\t"}

LowerChar(c) ==
    IF \E i \in 1..26 : UpperCase[i] = c
    THEN LowerCase[CHOOSE i \in 1..26 : UpperCase[i] = c]
    ELSE c

\* str.lower()
lower(s) == [i \in 1..Len(s) |-> LowerChar(s[i])]

\* str.strip(): leading and trailing whitespace removed
strip(s) ==
    LET keep == {i \in 1..Len(s) : s[i] \notin Whitespace}
    IN  IF keep = {} THEN <<>>
        ELSE SubSeq(s, CHOOSE i \in keep : \A j \in keep : i <= j,
                       CHOOSE i \in keep : \A j \in keep : j <= i)

\* `p in s` on Python strings
Contains(s, p) ==
    \E i \in 1..(Len(s) - Len(p) + 1) : SubSeq(s, i, i + Len(p) - 1) = p

\* The list literal of app.py:89-104.  No comma separates its last two string
\* literals, so Python joins them into one element: the list has 13 elements.
dont_know_phrases == <<
    <<"i"," ","d","o","n","'","t"," ","k","n","o","w">>,
    <<"i"," ","d","o"," ","n","o","t"," ","k","n","o","w">>,
    <<"d","o","n","'","t"," ","k","n","o","w">>,
    <<"i"," ","d","o","n","'","t"," ","h","a","v","e">>,
    <<"i"," ","d","o"," ","n","o","t"," ","h","a","v","e">>,
    <<"i","'","m"," ","s","o","r","r","y",","," ","i"," ","d","o","n","'","t"," ","k","n","o","w">>,
    <<"i"," ","d","o","n","'","t"," ","h","a","v","e"," ","i","n","f","o","r","m","a","t","i","o","n">>,
    <<"i"," ","c","a","n","n","o","t"," ","a","n","s","w","e","r">>,
    <<"i"," ","c","a","n","'","t"," ","a","n","s","w","e","r">>,
    <<"i","'","m"," ","s","o","r","r","y">>,
    <<"s","o","r","r","y",","," ","i"," ","d","o","n","'","t">>,
    <<"u","n","a","b","l","e"," ","t","o"," ","a","n","s","w","e","r">>,
    <<"i","'","m"," ","n","o","t"," ","a","b","l","e"," ","t","o">>
        \o <<"i","'","m"," ","n","o","t"," ","s","u","r","e">> >>

\* As ShouldFallback, with the lower() of app.py:88 left out.
ShouldFallbackCaseSensitive(ans) ==
    LET answer_lower == strip(ans)
    IN  \E k \in 1..Len(dont_know_phrases) :
            Contains(answer_lower, dont_know_phrases[k])

\* app.py:88 and app.py:107
ShouldFallback(ans) ==
    LET answer_lower == strip(lower(ans))
    IN  \E k \in 1..Len(dont_know_phrases) :
            Contains(answer_lower, dont_know_phrases[k])

\* The literal of the f-string at app.py:115
AnswerPrefix == <<"H","e","l","p","f","u","l"," ","A","n","s","w","e","r",":"," ","V","1"," ">>

-----------------------------------------------------------------------------
(* Inputs: what callers ask, what the index returns, what the model writes *)

Questions == { <<"2","+","2","?">>, <<"c","a","p","i","t","a","l","?">> }

\* page_content of the chunks saved in faiss_index
Corpus == { <<"c","1">>, <<"c","2">> }

\* A retrieval returns up to MaxDocs distinct chunks, possibly none.
Retrievals ==
    UNION { { d \in [1..n -> Corpus] : \A i, j \in 1..n : d[i] = d[j] => i = j }
            : n \in 0..MaxDocs }

\* The 14 string literals written at app.py:90-103, one by one.
WrittenPhrases ==
    { dont_know_phrases[k] : k \in 1..12 }
        \cup { <<"i","'","m"," ","n","o","t"," ","a","b","l","e"," ","t","o">>, <<"i","'","m"," ","n","o","t"," ","s","u","r","e">> }

UpperChar(c) ==
    IF \E i \in 1..26 : LowerCase[i] = c
    THEN UpperCase[CHOOSE i \in 1..26 : LowerCase[i] = c]
    ELSE c
Shout(s) == [i \in 1..Len(s) |-> UpperChar(s[i])]
Capitalised(s) == [i \in 1..Len(s) |-> IF i = 1 THEN UpperChar(s[i]) ELSE s[i]]

Cores ==
    WrittenPhrases
        \cup { dont_know_phrases[13] }
        \cup { <<>>, <<"p","a","r","i","s">>, <<"4">>, <<"s","o","r","r","y">>, <<"d","o","n","t"," ","k","n","o","w">>, <<"i"," ","k","n","o","w">> }
Openers == { <<>>, <<" ","\n","W","e","l","l",","," ">> }
Closers == { <<>>, <<".", " ">> }

\* What the completion model may write: every core, in three casings, alone
\* or inside a longer text with surrounding whitespace.
Texts ==
    { o \o s \o c : o \in Openers, c \in Closers,
                    s \in UNION { {k, Capitalised(k), Shout(k)} : k \in Cores } }

\* A few answers to the direct prompt; some of them are refusals themselves.
DirectTexts ==
    { <<"I"," ","d","o","n","'","t"," ","k","n","o","w">>, <<"4">>, <<"I","'","m"," ","n","o","t"," ","s","u","r","e",".">>, <<"P","a","r","i","s"," ","i","s"," ","t","h","e"," ","c","a","p","i","t","a","l",".">> }

\* The inputs of the concurrent specification: one question, one retrieval,
\* a refusal and a plain answer to the first prompt, one direct answer.
FewQuestions == { <<"2","+","2","?">> }
FewRetrievals == { d \in Retrievals : Len(d) = 1 /\ d[1] = <<"c","1">> }
FewTexts == { <<"I"," ","d","o","n","'","t"," ","k","n","o","w">>, <<"4">> }
FewDirectTexts == { <<"4">> }

-----------------------------------------------------------------------------
(* Python values *)

\* A dict, as the record of its items; a tuple, as the sequence of its items.
Dict(items) == [py |-> "dict", items |-> items]
Tuple(items) == [py |-> "tuple", items |-> items]
NoValue == [py |-> "None", items |-> <<>>]

NoText == <<>>
NoException == [site |-> "", msg |-> ""]
NoChains == [rag |-> None, fb |-> None]

\* str(e) of the exceptions a step can raise
ErrLoad == "faiss_index/index.faiss: No such file or directory"
ErrKey == "The api_key client option must be set"
ErrBuild == "unsupported operand type(s) for |"
ErrConnection == "Connection error."
ErrNone == "'NoneType' object has no attribute 'invoke'"

\* format_docs, app.py:50-51: "\n\n".join of the chunks' page_content
RECURSIVE format_docs(_)
format_docs(docs) ==
    IF Len(docs) = 0 THEN <<>>
    ELSE IF Len(docs) = 1 THEN docs[1]
    ELSE docs[1] \o <<"\n", "\n">> \o format_docs(Tail(docs))

\* The prompts of app.py:35-44 and app.py:61, by template and filled slots.
RagPrompt(q, docs) ==
    [template |-> "rag", context |-> format_docs(docs), question |-> q]
FallbackPrompt(q) ==
    [template |-> "fallback", context |-> NoText, question |-> q]

\* One external call, as the request's record of it.
Call(kind, input, ok, out) == [kind |-> kind, input |-> input, ok |-> ok, out |-> out]

-----------------------------------------------------------------------------
(* Initial state: the module has been imported, app.py:19-20 and app.py:67 *)

Init ==
    /\ rag_chain = None
    /\ fallback_chain = None
    /\ pc = [t \in Threads |-> "idle"]
    /\ question = [t \in Threads |-> NoText]
    /\ ran_init = [t \in Threads |-> FALSE]
    /\ chains = [t \in Threads |-> NoChains]
    /\ calls = [t \in Threads |-> <<>>]
    /\ answer = [t \in Threads |-> NoText]
    /\ should_fallback = [t \in Threads |-> FALSE]
    /\ exc = [t \in Threads |-> NoException]
    /\ ret = [t \in Threads |-> NoValue]

-----------------------------------------------------------------------------
(* GET / *)

\* read_root, app.py:72-74
read_root(t) ==
    /\ pc[t] = "idle"
    /\ ret' = [ret EXCEPT ![t] =
                  Dict([message |-> "Mommy Application is live!", version |-> "v2"])]
    /\ pc' = [pc EXCEPT ![t] = "done"]
    /\ UNCHANGED <<rag_chain, fallback_chain, question, ran_init, chains, calls,
                   answer, should_fallback, exc>>

-----------------------------------------------------------------------------
(* POST /chat *)

\* chat's frame (question, the two chains, answer, should_fallback, and how
\* its call of get_rag_chain went) ends with the call, whether it returns or
\* an exception is caught.
DropFrame(t) ==
    /\ question' = [question EXCEPT ![t] = NoText]
    /\ ran_init' = [ran_init EXCEPT ![t] = FALSE]
    /\ chains' = [chains EXCEPT ![t] = NoChains]
    /\ answer' = [answer EXCEPT ![t] = NoText]
    /\ should_fallback' = [should_fallback EXCEPT ![t] = FALSE]

\* The except clause of chat, app.py:116-118: whatever was raised inside the
\* try block is caught and the handler returns the pair ({"error": str(e)}, 500).
Except(t, site, msg) ==
    /\ exc' = [exc EXCEPT ![t] = [site |-> site, msg |-> msg]]
    /\ ret' = [ret EXCEPT ![t] = Tuple(<<Dict([error |-> msg]), 500>>)]
    /\ pc' = [pc EXCEPT ![t] = "done"]
    /\ DropFrame(t)

\* As Return, with answer_lower put into the response in place of answer.
ReturnLowered(t, ans) ==
    /\ ret' = [ret EXCEPT ![t] = Dict([answer |-> AnswerPrefix \o strip(lower(ans))])]
    /\ pc' = [pc EXCEPT ![t] = "done"]
    /\ DropFrame(t)
    /\ UNCHANGED exc

\* The return of chat, app.py:115
Return(t, ans) ==
    /\ ret' = [ret EXCEPT ![t] = Dict([answer |-> AnswerPrefix \o ans])]
    /\ pc' = [pc EXCEPT ![t] = "done"]
    /\ DropFrame(t)
    /\ UNCHANGED exc

\* chat is entered with a validated Query, app.py:76-78
chat(t, Qs) ==
    /\ pc[t] = "idle"
    /\ \E q \in Qs : question' = [question EXCEPT ![t] = q]
    /\ pc' = [pc EXCEPT ![t] = "get_rag_chain"]
    /\ UNCHANGED <<rag_chain, fallback_chain, ran_init, chains, calls, answer,
                   should_fallback, exc, ret>>

\* As CheckCache, without the test of app.py:24: every call builds anew.
CheckCacheNoGuard(t) ==
    /\ pc[t] = "get_rag_chain"
    /\ pc' = [pc EXCEPT ![t] = "load"]
    /\ ran_init' = [ran_init EXCEPT ![t] = TRUE]
    /\ UNCHANGED <<rag_chain, fallback_chain, question, chains, calls, answer,
                   should_fallback, exc, ret>>

\* get_rag_chain, app.py:24: the test of the global rag_chain
CheckCache(t) ==
    /\ pc[t] = "get_rag_chain"
    /\ IF rag_chain = None
       THEN /\ pc' = [pc EXCEPT ![t] = "load"]
            /\ ran_init' = [ran_init EXCEPT ![t] = TRUE]
       ELSE /\ pc' = [pc EXCEPT ![t] = "return_rag"]
            /\ UNCHANGED ran_init
    /\ UNCHANGED <<rag_chain, fallback_chain, question, chains, calls, answer,
                   should_fallback, exc, ret>>

\* get_rag_chain, app.py:25-47: the embeddings client, the index read from
\* disk, the retriever, the prompt and the completion client, all locals.
LoadComponents(t) ==
    /\ pc[t] = "load"
    /\ \/ /\ pc' = [pc EXCEPT ![t] = "build_rag"]
          /\ UNCHANGED <<question, ran_init, chains, answer, should_fallback,
                         exc, ret>>
       \/ Except(t, "load_index", ErrLoad)
       \/ Except(t, "build_llm", ErrKey)
    /\ UNCHANGED <<rag_chain, fallback_chain, calls>>

\* get_rag_chain, app.py:50-58: the chain is composed and stored in the global
AssignRagChain(t) ==
    /\ rag_chain' = t
    /\ pc' = [pc EXCEPT ![t] = "build_fallback"]
    /\ UNCHANGED <<fallback_chain, question, ran_init, chains, answer,
                   should_fallback, exc, ret>>

BuildRagChain(t) ==
    /\ pc[t] = "build_rag"
    /\ \/ AssignRagChain(t)
       \/ /\ Except(t, "build_rag", ErrBuild)
          /\ UNCHANGED <<rag_chain, fallback_chain>>
    /\ UNCHANGED calls

\* get_rag_chain, app.py:61-64: the fallback chain is composed and stored
AssignFallbackChain(t) ==
    /\ fallback_chain' = t
    /\ pc' = [pc EXCEPT ![t] = "return_rag"]
    /\ UNCHANGED <<rag_chain, question, ran_init, chains, answer,
                   should_fallback, exc, ret>>

BuildFallbackChain(t) ==
    /\ pc[t] = "build_fallback"
    /\ \/ AssignFallbackChain(t)
       \/ /\ Except(t, "build_fallback", ErrBuild)
          /\ UNCHANGED <<rag_chain, fallback_chain>>
    /\ UNCHANGED calls

\* get_rag_chain, app.py:65: the return statement loads the two globals one
\* after the other; chat binds them to its locals at app.py:80.
ReturnRag(t) ==
    /\ pc[t] = "return_rag"
    /\ chains' = [chains EXCEPT ![t].rag = rag_chain]
    /\ pc' = [pc EXCEPT ![t] = "return_fallback"]
    /\ UNCHANGED <<rag_chain, fallback_chain, question, ran_init, calls, answer,
                   should_fallback, exc, ret>>

ReturnFallback(t) ==
    /\ pc[t] = "return_fallback"
    /\ chains' = [chains EXCEPT ![t].fb = fallback_chain]
    /\ pc' = [pc EXCEPT ![t] = "invoke_rag"]
    /\ UNCHANGED <<rag_chain, fallback_chain, question, ran_init, calls, answer,
                   should_fallback, exc, ret>>

\* chat, app.py:88-115: the answer is tested for a refusal; without one it is
\* returned, with one the fallback chain is asked next.
Decide(t, ans) ==
    IF ShouldFallback(ans)
    THEN /\ answer' = [answer EXCEPT ![t] = ans]
         /\ should_fallback' = [should_fallback EXCEPT ![t] = TRUE]
         /\ pc' = [pc EXCEPT ![t] = "invoke_fallback"]
         /\ UNCHANGED <<question, ran_init, chains, exc, ret>>
    ELSE Return(t, ans)

\* chat, app.py:84-110: rag_chain.invoke(query.question) embeds the question
\* and searches the index, formats the chunks into the prompt and asks the
\* completion model; either external call may raise.
InvokeRag(t, Rs, Ts) ==
    /\ pc[t] = "invoke_rag"
    /\ IF chains[t].rag = None
       THEN /\ Except(t, "invoke_rag", ErrNone)
            /\ UNCHANGED calls
       ELSE \/ /\ calls' = [calls EXCEPT ![t] =
                               Append(@, Call("embed", question[t], FALSE, <<>>))]
               /\ Except(t, "embed", ErrConnection)
            \/ \E docs \in Rs :
                  /\ calls' = [calls EXCEPT ![t] =
                                  @ \o << Call("embed", question[t], TRUE, docs),
                                          Call("primary", RagPrompt(question[t], docs),
                                               FALSE, NoText) >>]
                  /\ Except(t, "primary", ErrConnection)
            \/ \E docs \in Rs, a \in Ts :
                  /\ calls' = [calls EXCEPT ![t] =
                                  @ \o << Call("embed", question[t], TRUE, docs),
                                          Call("primary", RagPrompt(question[t], docs),
                                               TRUE, a) >>]
                  /\ Decide(t, a)
    /\ UNCHANGED <<rag_chain, fallback_chain>>

\* As InvokeFallback, with the result of the second call not assigned to
\* answer: the first answer is returned.
InvokeFallbackKeepsAnswer(t, Ts) ==
    /\ pc[t] = "invoke_fallback"
    /\ IF chains[t].fb = None
       THEN /\ Except(t, "invoke_fallback", ErrNone)
            /\ UNCHANGED calls
       ELSE \/ \E a \in Ts :
                  /\ calls' = [calls EXCEPT ![t] =
                                  Append(@, Call("fallback", FallbackPrompt(question[t]),
                                                 TRUE, a))]
                  /\ Return(t, answer[t])
            \/ /\ calls' = [calls EXCEPT ![t] =
                               Append(@, Call("fallback", FallbackPrompt(question[t]),
                                              FALSE, NoText))]
               /\ Except(t, "fallback", ErrConnection)
    /\ UNCHANGED <<rag_chain, fallback_chain>>

\* chat, app.py:110-115: fallback_chain.invoke(query.question) on the local
\* fallback_chain, whose answer replaces the first one.
InvokeFallback(t, Ts) ==
    /\ pc[t] = "invoke_fallback"
    /\ IF chains[t].fb = None
       THEN /\ Except(t, "invoke_fallback", ErrNone)
            /\ UNCHANGED calls
       ELSE \/ \E a \in Ts :
                  /\ calls' = [calls EXCEPT ![t] =
                                  Append(@, Call("fallback", FallbackPrompt(question[t]),
                                                 TRUE, a))]
                  /\ Return(t, a)
            \/ /\ calls' = [calls EXCEPT ![t] =
                               Append(@, Call("fallback", FallbackPrompt(question[t]),
                                              FALSE, NoText))]
               /\ Except(t, "fallback", ErrConnection)
    /\ UNCHANGED <<rag_chain, fallback_chain>>

\* The server sends what the handler returned and the thread is free for the
\* next request.
Respond(t) ==
    /\ pc[t] = "done"
    /\ pc' = [pc EXCEPT ![t] = "idle"]
    /\ calls' = [calls EXCEPT ![t] = <<>>]
    /\ exc' = [exc EXCEPT ![t] = NoException]
    /\ ret' = [ret EXCEPT ![t] = NoValue]
    /\ UNCHANGED <<rag_chain, fallback_chain, question, ran_init, chains,
                   answer, should_fallback>>

-----------------------------------------------------------------------------
(* Specifications *)

\* Requests served at the same time by the worker threads.
Next ==
    \E t \in Threads :
        \/ read_root(t)
        \/ chat(t, FewQuestions)
        \/ CheckCache(t)
        \/ LoadComponents(t)
        \/ BuildRagChain(t)
        \/ BuildFallbackChain(t)
        \/ ReturnRag(t)
        \/ ReturnFallback(t)
        \/ InvokeRag(t, FewRetrievals, FewTexts)
        \/ InvokeFallback(t, FewDirectTexts)
        \/ Respond(t)

Spec == Init /\ [][Next]_vars

\* Requests served one after another: a thread steps only while no other
\* thread is serving a request.  The texts are drawn from the larger sets.
Alone(t) == \A u \in Threads \ {t} : pc[u] = "idle"

NextSeq ==
    \E t \in Threads :
        \/ Alone(t) /\ read_root(t)
        \/ Alone(t) /\ chat(t, Questions)
        \/ Alone(t) /\ CheckCache(t)
        \/ Alone(t) /\ LoadComponents(t)
        \/ Alone(t) /\ BuildRagChain(t)
        \/ Alone(t) /\ BuildFallbackChain(t)
        \/ Alone(t) /\ ReturnRag(t)
        \/ Alone(t) /\ ReturnFallback(t)
        \/ Alone(t) /\ InvokeRag(t, Retrievals, Texts)
        \/ Alone(t) /\ InvokeFallback(t, DirectTexts)
        \/ Alone(t) /\ Respond(t)

SpecSeq == Init /\ [][NextSeq]_vars

-----------------------------------------------------------------------------
(* Vocabulary of the properties *)

IsEmbed(c) == c.kind = "embed"
IsPrimary(c) == c.kind = "primary"
IsFallback(c) == c.kind = "fallback"
Embeds(t) == SelectSeq(calls[t], IsEmbed)
Primaries(t) == SelectSeq(calls[t], IsPrimary)
Fallbacks(t) == SelectSeq(calls[t], IsFallback)

\* The text contains, lower-cased and trimmed, an element of the list the
\* code holds.
Refuses(text) ==
    \E k \in DOMAIN dont_know_phrases :
        Contains(strip(lower(text)), dont_know_phrases[k])

\* The text contains, lower-cased and trimmed, a phrase written in the list.
HasWrittenPhrase(text) ==
    \E p \in WrittenPhrases : Contains(strip(lower(text)), p)

Finished(t) == pc[t] = "done"
\* chat has returned {"answer": ...}
Answered(t) ==
    /\ Finished(t)
    /\ ret[t].py = "dict"
    /\ "answer" \in DOMAIN ret[t].items
\* chat has returned from its except clause
Failed(t) == Finished(t) /\ exc[t] # NoException
\* The answer text that follows the prefix in the response
ReturnedText(t) ==
    SubSeq(ret[t].items.answer, Len(AnswerPrefix) + 1, Len(ret[t].items.answer))
\* The first completion call returned an answer
PrimaryAnswered(t) == Len(Primaries(t)) = 1 /\ Primaries(t)[1].ok
PrimaryAnswer(t) == Primaries(t)[1].out

InitSites == {"load_index", "build_llm", "build_rag", "build_fallback"}
InInit(t) == pc[t] \in {"load", "build_rag", "build_fallback"}
\* get_rag_chain has returned to chat, which holds the pair in its locals
HoldsPair(t) == pc[t] \in {"invoke_rag", "invoke_fallback"}
Usable(pair) == pair.rag # None /\ pair.fb # None

-----------------------------------------------------------------------------
(* C1 *)

\* C1, as stated: whenever the first answer contains a refusal substring, the
\* answer returned differs from the first answer and is the result of the
\* fallback prompt.
C1_FallbackAnswerDiffers ==
    \A t \in Threads :
        (Answered(t) /\ PrimaryAnswered(t) /\ Refuses(PrimaryAnswer(t)))
            => /\ Len(Fallbacks(t)) = 1
               /\ ReturnedText(t) = Fallbacks(t)[1].out
               /\ ReturnedText(t) # PrimaryAnswer(t)

\* C1, amended: whenever the first answer contains a refusal substring and
\* chat returns an answer, exactly one fallback call was made, with the
\* context-free prompt on the same question, and the response is the prefix
\* followed by that call's result (which may be the same text as the first
\* answer).
C1_FallbackAnswerReturned ==
    \A t \in Threads :
        (Answered(t) /\ PrimaryAnswered(t) /\ Refuses(PrimaryAnswer(t)))
            => /\ Len(Fallbacks(t)) = 1
               /\ Fallbacks(t)[1].ok
               /\ Fallbacks(t)[1].input
                      = FallbackPrompt(Primaries(t)[1].input.question)
               /\ ret[t] = Dict([answer |-> AnswerPrefix \o Fallbacks(t)[1].out])

\* A refusal written in capitals or inside a longer text was replaced by a
\* different second answer.
C1_Witness ==
    \E t \in Threads :
        /\ Answered(t) /\ PrimaryAnswered(t) /\ Refuses(PrimaryAnswer(t))
        /\ PrimaryAnswer(t) # strip(lower(PrimaryAnswer(t)))
        /\ Len(Fallbacks(t)) = 1
        /\ ReturnedText(t) # PrimaryAnswer(t)

-----------------------------------------------------------------------------
(* C2 *)

\* C2: whenever the first answer contains no refusal substring, the response
\* is {"answer": prefix + first answer}, the text unchanged, and no fallback
\* call was made.
C2_PlainAnswerReturned ==
    \A t \in Threads :
        (Finished(t) /\ PrimaryAnswered(t) /\ ~Refuses(PrimaryAnswer(t)))
            => /\ ret[t] = Dict([answer |-> AnswerPrefix \o PrimaryAnswer(t)])
               /\ Len(Fallbacks(t)) = 0
               /\ exc[t] = NoException

\* A first answer with capitals and surrounding whitespace, and without a
\* refusal, has been returned.
C2_Witness ==
    \E t \in Threads :
        /\ Answered(t) /\ PrimaryAnswered(t) /\ ~Refuses(PrimaryAnswer(t))
        /\ PrimaryAnswer(t) # lower(PrimaryAnswer(t))
        /\ PrimaryAnswer(t) # strip(PrimaryAnswer(t))

-----------------------------------------------------------------------------
(* C3 *)

RetrievedNothing(t) ==
    Len(Embeds(t)) = 1 /\ Embeds(t)[1].ok /\ Len(Embeds(t)[1].out) = 0

\* C3, as stated: whenever retrieval returned no chunk, the answer returned
\* comes from the fallback prompt, whatever the first answer was.
C3_EmptyRetrievalFallsBack ==
    \A t \in Threads :
        (Answered(t) /\ RetrievedNothing(t))
            => /\ Len(Fallbacks(t)) = 1
               /\ ReturnedText(t) = Fallbacks(t)[1].out

\* C3, amended: whenever retrieval returned no chunk, the first prompt is
\* still sent, with an empty context, and the answer returned comes from the
\* fallback prompt exactly when the first answer contains a refusal
\* substring; otherwise it is the first answer.
C3_EmptyRetrievalStillAsksFirst ==
    \A t \in Threads :
        (Answered(t) /\ RetrievedNothing(t))
            => /\ PrimaryAnswered(t)
               /\ Primaries(t)[1].input.template = "rag"
               /\ Primaries(t)[1].input.context = NoText
               /\ (Len(Fallbacks(t)) = 1) = Refuses(PrimaryAnswer(t))
               /\ (Refuses(PrimaryAnswer(t))
                      => ReturnedText(t) = Fallbacks(t)[1].out)
               /\ (~Refuses(PrimaryAnswer(t))
                      => ReturnedText(t) = PrimaryAnswer(t))

\* With no chunk retrieved, a first answer without a refusal has been returned.
C3_Witness ==
    \E t \in Threads :
        /\ Answered(t) /\ RetrievedNothing(t)
        /\ ~Refuses(PrimaryAnswer(t))
        /\ ReturnedText(t) = PrimaryAnswer(t)
        /\ Len(ReturnedText(t)) > 0

-----------------------------------------------------------------------------
(* C4 *)

\* C4: whenever an exception is raised inside chat, it is caught and what chat
\* hands back for the request is the object {"error": <message>}: a dict whose
\* only key is error, with nothing beside it.
C4_ErrorObjectReturned ==
    \A t \in Threads :
        Failed(t)
            => /\ ret[t].py = "dict"
               /\ DOMAIN ret[t].items = {"error"}
               /\ ret[t].items.error = exc[t].msg

-----------------------------------------------------------------------------
(* C5 *)

\* A request of chat that has ended, by a return or by the except clause
ChatEnded(t) == Answered(t) \/ Failed(t)

\* C5: no call is retried.  A request makes no more than one call of each
\* kind, and its one first completion call unless an earlier step had already
\* failed; it makes a fallback call if and only if the first call succeeded
\* and its answer contains a refusal substring; a call that fails is the last
\* call of the request.
C5_NoRetry ==
    \A t \in Threads :
        ChatEnded(t)
            => /\ Len(Embeds(t)) <= 1
               /\ Len(Primaries(t)) <= 1
               /\ Len(Fallbacks(t)) <= 1
               /\ (exc[t].site \notin (InitSites \cup {"invoke_rag", "embed"})
                      => Len(Primaries(t)) = 1)
               /\ (Len(Fallbacks(t)) = 1)
                      = (PrimaryAnswered(t) /\ Refuses(PrimaryAnswer(t)))
               /\ \A i \in 1..(Len(calls[t]) - 1) : calls[t][i].ok

-----------------------------------------------------------------------------
(* C6 *)

NoInitInFlight == \A t \in Threads : ~InInit(t)
InitCompleted == rag_chain # None /\ NoInitInFlight

\* C6: with requests served one after another, once an initialisation has
\* completed no later step enters the if-body of get_rag_chain again and
\* neither cached chain is assigned again.
C6_InitialisedOnce ==
    [][ InitCompleted
            => /\ rag_chain' = rag_chain
               /\ fallback_chain' = fallback_chain
               /\ \A t \in Threads : ~InInit(t)' ]_vars

\* A later request, served by another thread than the one that built the
\* chains, has got the cached pair without running the initialisation.
C6_Witness ==
    \E t \in Threads :
        /\ pc[t] = "invoke_rag"
        /\ ~ran_init[t]
        /\ chains[t].rag \notin {None, t}
        /\ chains[t] = [rag |-> rag_chain, fb |-> fallback_chain]
        /\ Usable(chains[t])

-----------------------------------------------------------------------------
(* C7 *)

\* C7: initialisation may run more than once and the end state converges.
\* Once no initialisation is in flight and one has run to its end, the cache
\* holds a fully built pair; and once the cache has so converged, every
\* request that went through get_rag_chain in the meantime holds a usable
\* pair.
C7_ConvergesForAll ==
    /\ (NoInitInFlight /\ \E t \in Threads : ran_init[t] /\ HoldsPair(t))
           => Usable([rag |-> rag_chain, fb |-> fallback_chain])
    /\ (NoInitInFlight /\ Usable([rag |-> rag_chain, fb |-> fallback_chain]))
           => \A t \in Threads : HoldsPair(t) => Usable(chains[t])

-----------------------------------------------------------------------------
(* C8 *)

\* C8: every call of get_rag_chain that returns yields two built chains, and
\* the fallback invocation never fails for want of the fallback chain.
C8_PairNeverHalfBuilt ==
    \A t \in Threads :
        /\ HoldsPair(t) => Usable(chains[t])
        /\ exc[t].site # "invoke_fallback"

-----------------------------------------------------------------------------
(* C9 *)

\* C9: every phrase written in the list triggers the fallback on its own:
\* once the first answer contains one, should_fallback is true and chat goes
\* on to the fallback chain.
C9_EveryWrittenPhraseTriggers ==
    \A t \in Threads :
        (PrimaryAnswered(t) /\ HasWrittenPhrase(PrimaryAnswer(t)))
            => \/ pc[t] = "invoke_fallback" /\ should_fallback[t]
               \/ Finished(t) /\ Len(Fallbacks(t)) = 1
               \/ Finished(t) /\ exc[t].site = "invoke_fallback"

-----------------------------------------------------------------------------
(* C10 *)

\* C10: whenever the initialisation raised, at whatever step, the request
\* returns an error and leaves both cached chains None.
C10_FailedInitLeavesCacheEmpty ==
    \A t \in Threads :
        (Finished(t) /\ exc[t].site \in InitSites)
            => /\ ret[t].py = "tuple"
               /\ rag_chain = None
               /\ fallback_chain = None

====
